---- MODULE Spec2Model ----
(***************************************************************************)
(* NEC PC-8500 driver (src/mame/nec/pc8401a.cpp): the memory mapping       *)
(* register and the banked CPU address space, the keyboard scan / strobe / *)
(* interrupt logic on ports 70h/71h, and the I/O ROM address counter.      *)
(*                                                                         *)
(* The 64KB CPU space and the backing stores are observed at a fixed set   *)
(* of sampled addresses (AddrProbe); the set is closed under every alias   *)
(* the bank table can produce, so each aliasing of two windows onto the    *)
(* same RAM byte is visible at some probe.                                 *)
(***************************************************************************)
EXTENDS Integers, Sequences, FiniteSets

VARIABLES
    m_mmr,            \* uint8_t m_mmr: memory mapping register
    m_io_addr,        \* uint32_t m_io_addr: I/O ROM address counter
    m_key_strobe,     \* int m_key_strobe: key pressed
    m_key_latch,      \* uint8_t m_key_latch
    m_key_irq_enable, \* bool m_key_irq_enable
    m_cart_rom,       \* memory_region *m_cart_rom: TRUE when a ROM cartridge is inserted
    m_io_cart,        \* m_io_cart: TRUE when an I/O ROM cartridge is inserted
    ram_size,         \* m_ram->size(), in bytes
    ram,              \* m_ram->pointer(): main RAM contents at the sampled offsets
    m_rom,            \* m_rom->base(): the Z80 ROM region at the sampled offsets
    crt_ram,          \* m_crt_ram: CRT video RAM contents at the sampled offsets
    program,          \* AS_PROGRAM handlers: [r, w : Window -> bank tag or "unmap"]
    bank_entry,       \* membank(tag)->entry()
    irq_line,         \* INPUT_LINE_IRQ0 of the Z80: "CLEAR" or "ASSERT"
    irq_vector,       \* vector byte given with the last assertion
    data_bus,         \* the byte the CPU got from its last port read
    saved,            \* the items of the last state save (taken = FALSE before the first)
    op,               \* the operation the last step ran
    calls,            \* the calls that operation made: bankswitch and the CPU's input line
    phase,            \* history: progress of the enable sequence since the last reset
    asserts,          \* history: IRQ0 assertions since the last keyboard port write or reset
    keyed,            \* history: a tick has read a non-idle row since then
    e2e,              \* history: position in the end-to-end bank switching sequence
    io_hist,          \* history: the bytes last written to ports B0h, B1h, B2h
    at_save,          \* history: the keyboard fields at the time of the last state save
    seq               \* history: position in the enable sequence after a reset

vars == <<m_mmr, m_io_addr, m_key_strobe, m_key_latch, m_key_irq_enable,
          m_cart_rom, m_io_cart, ram_size, ram, m_rom, crt_ram, program, bank_entry,
          irq_line, irq_vector, data_bus, saved, op, calls, phase, asserts, keyed,
          e2e, io_hist, at_save, seq>>

kbd_vars == <<m_key_strobe, m_key_latch, m_key_irq_enable>>
irq_vars == <<irq_line, irq_vector>>
mem_vars == <<ram, crt_ram, m_rom>>
map_vars == <<program, bank_entry>>
cfg_vars == <<m_cart_rom, m_io_cart, ram_size>>
obs_vars == <<phase, asserts, keyed>>
\* the I/O ROM address counter, the CPU's data bus and the save file
io_vars == <<m_io_addr, data_bus, saved>>
\* the histories of the scripted sequence, of ports B0h-B2h and of the save
scr_vars == <<e2e, io_hist, at_save, seq>>

(***************************************************************************)
(* Bit helpers on bytes.                                                   *)
(***************************************************************************)
BIT(x, n) == (x \div (2 ^ n)) % 2

(***************************************************************************)
(* Sampled CPU addresses and the windows of the address map.               *)
(*   1000h, 5000h  low window   0000h-7FFFh  (bank1); under bank1 entry 5  *)
(*                 they alias RAM 9000h and D000h                          *)
(*   9000h         mid window   8000h-BFFFh  (bank3)                       *)
(*   D000h         high window  C000h-DFFFh  (bank4)                       *)
(*   E400h         high window  E000h-E7FFh  (bank4, unmapped with CRT RAM)*)
(*   F000h         top window   E800h-FFFFh  (bank5)                       *)
(***************************************************************************)
AddrProbe == {4096, 20480, 36864, 53248, 58368, 61440}

Window == {"w0000", "w8000", "wc000", "we000", "we800"}

WindowOf(a) ==
    IF a < 32768 THEN "w0000"
    ELSE IF a < 49152 THEN "w8000"
    ELSE IF a < 57344 THEN "wc000"
    ELSE IF a < 59392 THEN "we000"
    ELSE "we800"

\* first address of the range each bank is installed at
BankStart(tag) ==
    CASE tag = "bank1" -> 0
      [] tag = "bank3" -> 32768
      [] tag = "bank4" -> 49152
      [] tag = "bank5" -> 59392

(***************************************************************************)
(* Backing stores.                                                         *)
(***************************************************************************)
\* offsets of main RAM reached from AddrProbe through any bank entry
RamProbe == {4096, 20480, 36864, 53248, 58368, 61440}

\* offsets of the CRT video RAM reached from AddrProbe
CrtProbe == {4096}

\* the low-window probes
LowProbe == {a \in AddrProbe : a < 32768}

\* offsets of the Z80 ROM region reached from AddrProbe: four sections of 8000h
RomProbe == {e * 32768 + a : e \in 0 .. 3, a \in LowProbe}

\* ROM_REGION(0x20000, Z80_TAG, ROMREGION_ERASEFF) with pc8500.bin loaded at
\* 0000h-FFFFh: the image bytes are data; the rest reads FFh
ROM_START(off) == IF off < 65536 THEN (off \div 1024 + 3 * (off \div 32768) + 1) % 256 ELSE 255

\* the option ROM cartridge image (data)
cart_rom(off) == (off \div 1024 + 128) % 256

\* map.unmap_value_high()
UnmapValue == 255

\* configure_entries / configure_entry of machine_start: the store and the
\* offset in it that entry e of a bank points at
BankBase(tag, e) ==
    CASE tag = "bank1" /\ e \in 0 .. 3 -> [store |-> "rom", off |-> e * 32768]
      [] tag = "bank1" /\ e \in 4 .. 5 -> [store |-> "ram", off |-> (e - 4) * 32768]
      [] tag = "bank1" /\ e = 6        -> [store |-> "cart", off |-> 0]
      [] tag = "bank3" /\ e \in 0 .. 4 -> [store |-> "ram", off |-> e * 16384]
      [] tag = "bank4" /\ e = 0        -> [store |-> "ram", off |-> 49152]
      [] tag = "bank4" /\ e = 1        -> [store |-> "crt", off |-> 0]
      [] tag = "bank5" /\ e = 0        -> [store |-> "ram", off |-> 59392]

\* where CPU address a lands through bank tag with the bank's current entry
Target(tag, a, be) ==
    LET b == BankBase(tag, be[tag])
    IN  [store |-> b.store, off |-> b.off + (a - BankStart(tag))]

\* the stores: mem = [ram, crt, rom]
StoreByte(t, mem) ==
    CASE t.store = "rom"  -> mem.rom[t.off]
      [] t.store = "cart" -> cart_rom(t.off)
      [] t.store = "ram"  -> mem.ram[t.off]
      [] t.store = "crt"  -> mem.crt[t.off]

\* a CPU read of the program space
mem_r_in(a, prog, be, mem) ==
    LET h == prog.r[WindowOf(a)]
    IN  IF h = "unmap" THEN UnmapValue ELSE StoreByte(Target(h, a, be), mem)

mem_r(a) == mem_r_in(a, program, bank_entry, [ram |-> ram, crt |-> crt_ram, rom |-> m_rom])

\* a CPU write to the program space: the stores after it (a bank is a plain
\* pointer: a write handler on a bank stores wherever the entry points)
mem_w_in(a, d, prog, be, mem) ==
    LET h == prog.w[WindowOf(a)]
        t == Target(h, a, be)
    IN  IF h = "unmap" THEN mem
        ELSE CASE t.store = "ram" -> [mem EXCEPT !.ram[t.off] = d]
               [] t.store = "crt" -> [mem EXCEPT !.crt[t.off] = d]
               [] t.store = "rom" -> [mem EXCEPT !.rom[t.off] = d]

(***************************************************************************)
(* bankswitch                                                              *)
(***************************************************************************)
install_read_bank(prog, w, tag) == [prog EXCEPT !.r[w] = tag]
install_readwrite_bank(prog, w, tag) == [prog EXCEPT !.r[w] = tag, !.w[w] = tag]
unmap_write(prog, w) == [prog EXCEPT !.w[w] = "unmap"]
unmap_readwrite(prog, w) == [prog EXCEPT !.r[w] = "unmap", !.w[w] = "unmap"]
set_entry(be, tag, e) == [be EXCEPT ![tag] = e]

\* variant: the internal ROM is installed without unmapping the write side
bankswitch_0000_rom_writable(data, cart, m) ==
    LET rombank == data % 4
        ram0000 == (data \div 4) % 4
    IN  CASE ram0000 = 0 ->
               IF rombank < 3
               THEN [program |-> install_readwrite_bank(m.program, "w0000", "bank1"),
                     bank_entry |-> set_entry(m.bank_entry, "bank1", rombank)]
               ELSE IF cart
               THEN [program |-> unmap_write(install_read_bank(m.program, "w0000", "bank1"), "w0000"),
                     bank_entry |-> set_entry(m.bank_entry, "bank1", 6)]
               ELSE [program |-> unmap_readwrite(m.program, "w0000"),
                     bank_entry |-> m.bank_entry]
          [] ram0000 = 1 ->
               [program |-> install_readwrite_bank(m.program, "w0000", "bank1"),
                bank_entry |-> set_entry(m.bank_entry, "bank1", 4)]
          [] ram0000 = 2 ->
               [program |-> install_readwrite_bank(m.program, "w0000", "bank1"),
                bank_entry |-> set_entry(m.bank_entry, "bank1", 5)]
          [] ram0000 = 3 -> m

\* variant: the two RAM halves of bank1 are taken one for the other
bankswitch_0000_ram_swapped(data, cart, m) ==
    LET rombank == data % 4
        ram0000 == (data \div 4) % 4
    IN  CASE ram0000 = 0 ->
               IF rombank < 3
               THEN [program |-> unmap_write(install_read_bank(m.program, "w0000", "bank1"), "w0000"),
                     bank_entry |-> set_entry(m.bank_entry, "bank1", rombank)]
               ELSE IF cart
               THEN [program |-> unmap_write(install_read_bank(m.program, "w0000", "bank1"), "w0000"),
                     bank_entry |-> set_entry(m.bank_entry, "bank1", 6)]
               ELSE [program |-> unmap_readwrite(m.program, "w0000"),
                     bank_entry |-> m.bank_entry]
          [] ram0000 = 1 ->
               [program |-> install_readwrite_bank(m.program, "w0000", "bank1"),
                bank_entry |-> set_entry(m.bank_entry, "bank1", 5)]
          [] ram0000 = 2 ->
               [program |-> install_readwrite_bank(m.program, "w0000", "bank1"),
                bank_entry |-> set_entry(m.bank_entry, "bank1", 4)]
          [] ram0000 = 3 -> m

\* switch (ram0000): the low window
bankswitch_0000(data, cart, m) ==
    LET rombank == data % 4
        ram0000 == (data \div 4) % 4
    IN  CASE ram0000 = 0 ->
               IF rombank < 3
               THEN [program |-> unmap_write(install_read_bank(m.program, "w0000", "bank1"), "w0000"),
                     bank_entry |-> set_entry(m.bank_entry, "bank1", rombank)]
               ELSE IF cart
               THEN [program |-> unmap_write(install_read_bank(m.program, "w0000", "bank1"), "w0000"),
                     bank_entry |-> set_entry(m.bank_entry, "bank1", 6)]
               ELSE [program |-> unmap_readwrite(m.program, "w0000"),
                     bank_entry |-> m.bank_entry]
          [] ram0000 = 1 ->
               [program |-> install_readwrite_bank(m.program, "w0000", "bank1"),
                bank_entry |-> set_entry(m.bank_entry, "bank1", 4)]
          [] ram0000 = 2 ->
               [program |-> install_readwrite_bank(m.program, "w0000", "bank1"),
                bank_entry |-> set_entry(m.bank_entry, "bank1", 5)]
          [] ram0000 = 3 -> m   \* invalid: logerror only

\* switch (ram8000): the mid window
bankswitch_8000(data, size, m) ==
    LET ram8000 == (data \div 16) % 4
    IN  IF ram8000 < 3 \/ size > 64
        THEN [program |-> install_readwrite_bank(m.program, "w8000", "bank3"),
              bank_entry |-> set_entry(m.bank_entry, "bank3", ram8000)]
        ELSE [program |-> unmap_readwrite(m.program, "w8000"),
              bank_entry |-> m.bank_entry]

\* bankswitch_c000 with bank4 left on its RAM entry when the CRT RAM is selected
bankswitch_c000_entry_kept(data, m) ==
    IF BIT(data, 6) = 1
    THEN [program |-> unmap_readwrite(install_readwrite_bank(m.program, "wc000", "bank4"), "we000"),
          bank_entry |-> set_entry(m.bank_entry, "bank4", 0)]
    ELSE [program |-> install_readwrite_bank(install_readwrite_bank(m.program, "wc000", "bank4"),
                                             "we000", "bank4"),
          bank_entry |-> set_entry(m.bank_entry, "bank4", 0)]

\* bankswitch_c000 with the unmapped range running to FFFFh instead of E7FFh
bankswitch_c000_top_unmapped(data, m) ==
    IF BIT(data, 6) = 1
    THEN [program |-> unmap_readwrite(unmap_readwrite(
                          install_readwrite_bank(m.program, "wc000", "bank4"), "we000"), "we800"),
          bank_entry |-> set_entry(m.bank_entry, "bank4", 1)]
    ELSE [program |-> install_readwrite_bank(install_readwrite_bank(m.program, "wc000", "bank4"),
                                             "we000", "bank4"),
          bank_entry |-> set_entry(m.bank_entry, "bank4", 0)]

\* bankswitch_c000 with the RAM branch installing C000h-DFFFh only, so that
\* E000h-E7FFh stays as the previous value left it
bankswitch_c000_e000_left(data, m) ==
    IF BIT(data, 6) = 1
    THEN [program |-> unmap_readwrite(install_readwrite_bank(m.program, "wc000", "bank4"), "we000"),
          bank_entry |-> set_entry(m.bank_entry, "bank4", 1)]
    ELSE [program |-> install_readwrite_bank(m.program, "wc000", "bank4"),
          bank_entry |-> set_entry(m.bank_entry, "bank4", 0)]

\* if (BIT(data, 6)): the high window
bankswitch_c000(data, m) ==
    IF BIT(data, 6) = 1
    THEN [program |-> unmap_readwrite(install_readwrite_bank(m.program, "wc000", "bank4"), "we000"),
          bank_entry |-> set_entry(m.bank_entry, "bank4", 1)]
    ELSE [program |-> install_readwrite_bank(install_readwrite_bank(m.program, "wc000", "bank4"),
                                             "we000", "bank4"),
          bank_entry |-> set_entry(m.bank_entry, "bank4", 0)]

\* the mapping after bankswitch(data) on mapping m
bankswitch(data, cart, size, m) ==
    bankswitch_c000(data, bankswitch_8000(data, size, bankswitch_0000(data, cart, m)))

(***************************************************************************)
(* machine_start                                                           *)
(***************************************************************************)
\* pc8401a_mem: every window starts on its own bank, read and write
pc8401a_mem ==
    LET h == [w \in Window |->
                CASE w = "w0000" -> "bank1"
                  [] w = "w8000" -> "bank3"
                  [] w = "wc000" -> "bank4"
                  [] w = "we000" -> "bank4"
                  [] w = "we800" -> "bank5"]
    IN  [r |-> h, w |-> h]

\* RAM(config, RAM_TAG).set_default_size("64K").set_extra_options("96K")
RamSizes == {64 * 1024, 96 * 1024}

\* the byte a RAM buffer is filled with before the machine starts
RamFill == {205}

machine_start ==
    /\ m_cart_rom \in BOOLEAN
    /\ ram_size \in RamSizes
    \* of the eight slot and RAM configurations four are taken: every ROM
    \* cartridge / RAM size pair, the I/O cartridge in two of them
    /\ m_io_cart = (m_cart_rom = (ram_size = 64 * 1024))
    /\ \E f \in RamFill : ram = [o \in RamProbe |-> f]
    /\ crt_ram = [o \in CrtProbe |-> 0]
    /\ m_rom = [o \in RomProbe |-> ROM_START(o)]
    /\ LET m == bankswitch(0, m_cart_rom, ram_size,
                          [program |-> pc8401a_mem,
                           bank_entry |-> [t \in {"bank1", "bank3", "bank4", "bank5"} |-> 0]])
       IN  program = m.program /\ bank_entry = m.bank_entry
    /\ m_mmr = 0
    /\ m_io_addr = 0
    /\ m_key_strobe = 0
    /\ m_key_latch = 0
    /\ m_key_irq_enable = FALSE
    /\ irq_line = "CLEAR"
    /\ irq_vector = 255
    /\ data_bus = 255
    /\ saved = [taken |-> FALSE, m_mmr |-> 0, m_io_addr |-> 0]
    /\ op = "machine_start"
    /\ calls = <<<<"cs_w", 1>>, <<"bankswitch", 0>>>>

(***************************************************************************)
(* machine_reset                                                           *)
(***************************************************************************)
machine_reset ==
    /\ op' = "machine_reset"
    /\ m_key_irq_enable' = FALSE
    /\ calls' = <<>>
    /\ UNCHANGED <<m_mmr, io_vars, m_key_strobe, m_key_latch, cfg_vars, mem_vars,
                   map_vars, irq_vars>>

(***************************************************************************)
(* Port 30h: memory mapping register                                       *)
(***************************************************************************)
mmr_r == m_mmr

\* variant: the comparison with the current value is left out
mmr_w_always(data) ==
    /\ op' = "mmr_w"
    /\ LET m == bankswitch(data, m_cart_rom, ram_size,
                          [program |-> program, bank_entry |-> bank_entry])
       IN  /\ program' = m.program
           /\ bank_entry' = m.bank_entry
           /\ calls' = <<<<"bankswitch", data>>>>
    /\ m_mmr' = data
    /\ UNCHANGED <<io_vars, kbd_vars, cfg_vars, mem_vars, irq_vars>>

\* variant: the register is not updated after the switch
mmr_w_not_stored(data) ==
    /\ op' = "mmr_w"
    /\ IF data # m_mmr
       THEN LET m == bankswitch(data, m_cart_rom, ram_size,
                               [program |-> program, bank_entry |-> bank_entry])
            IN  /\ program' = m.program
                /\ bank_entry' = m.bank_entry
                /\ calls' = <<<<"bankswitch", data>>>>
       ELSE /\ UNCHANGED map_vars
            /\ calls' = <<>>
    /\ m_mmr' = m_mmr
    /\ UNCHANGED <<io_vars, kbd_vars, cfg_vars, mem_vars, irq_vars>>

mmr_w(data) ==
    /\ op' = "mmr_w"
    /\ m_mmr' = data
    /\ IF data # m_mmr
       THEN LET m == bankswitch(data, m_cart_rom, ram_size,
                               [program |-> program, bank_entry |-> bank_entry])
            IN  /\ program' = m.program
                /\ bank_entry' = m.bank_entry
                /\ calls' = <<<<"bankswitch", data>>>>
       ELSE /\ UNCHANGED map_vars
            /\ calls' = <<>>
    /\ UNCHANGED <<io_vars, kbd_vars, cfg_vars, mem_vars, irq_vars>>

(***************************************************************************)
(* CPU write to the program space                                          *)
(***************************************************************************)
mem_w(a, d) ==
    LET s == mem_w_in(a, d, program, bank_entry, [ram |-> ram, crt |-> crt_ram, rom |-> m_rom])
    IN  /\ op' = "mem_w"
        /\ ram' = s.ram
        /\ crt_ram' = s.crt
        /\ m_rom' = s.rom
        /\ calls' = <<>>
        /\ UNCHANGED <<m_mmr, io_vars, kbd_vars, cfg_vars, map_vars, irq_vars>>

(***************************************************************************)
(* Keyboard                                                                *)
(***************************************************************************)
Rows == 0 .. 9

\* for (row = 0; row < 10; row++): the scan from row on, st = [strobe, latch]
RECURSIVE scan_rows(_, _, _)
scan_rows(y, row, st) ==
    IF row >= 10 THEN st
    ELSE LET data == y[row]
         IN  scan_rows(y, row + 1,
                       IF data # 255 THEN [strobe |-> 1, latch |-> data] ELSE st)

\* variant: the scan runs whether or not the keyboard interrupt is enabled
scan_keyboard_no_enable_check(y) ==
    /\ op' = "keyboard_tick"
    /\ LET st == scan_rows(y, 0, [strobe |-> 0, latch |-> m_key_latch])
       IN  /\ m_key_latch' = st.latch
           /\ IF m_key_strobe = 0 /\ st.strobe # 0
              THEN /\ irq_line' = "ASSERT"
                   /\ irq_vector' = 239
                   /\ calls' = <<<<"irq", "ASSERT", 239>>>>
              ELSE /\ UNCHANGED irq_vars
                   /\ calls' = <<>>
           /\ m_key_strobe' = IF st.strobe # 0 THEN st.strobe ELSE m_key_strobe
           /\ UNCHANGED <<m_mmr, io_vars, m_key_irq_enable, cfg_vars, mem_vars, map_vars>>

\* variant: the interrupt follows the level of the scan, not the edge of the strobe
scan_keyboard_level_triggered(y) ==
    /\ op' = "keyboard_tick"
    /\ IF ~m_key_irq_enable
       THEN /\ calls' = <<>>
            /\ UNCHANGED <<m_mmr, io_vars, kbd_vars, cfg_vars, mem_vars, map_vars, irq_vars>>
       ELSE LET st == scan_rows(y, 0, [strobe |-> 0, latch |-> m_key_latch])
            IN  /\ m_key_latch' = st.latch
                /\ IF st.strobe # 0
                   THEN /\ irq_line' = "ASSERT"
                        /\ irq_vector' = 239
                        /\ calls' = <<<<"irq", "ASSERT", 239>>>>
                   ELSE /\ UNCHANGED irq_vars
                        /\ calls' = <<>>
                /\ m_key_strobe' = IF st.strobe # 0 THEN st.strobe ELSE m_key_strobe
                /\ UNCHANGED <<m_mmr, io_vars, m_key_irq_enable, cfg_vars, mem_vars, map_vars>>

\* variant: a pending byte is kept in the latch until the strobe is cleared
scan_keyboard_latch_held(y) ==
    /\ op' = "keyboard_tick"
    /\ IF ~m_key_irq_enable
       THEN /\ calls' = <<>>
            /\ UNCHANGED <<m_mmr, io_vars, kbd_vars, cfg_vars, mem_vars, map_vars, irq_vars>>
       ELSE LET st == scan_rows(y, 0, [strobe |-> 0, latch |-> m_key_latch])
            IN  /\ m_key_latch' = IF m_key_strobe = 0 THEN st.latch ELSE m_key_latch
                /\ IF m_key_strobe = 0 /\ st.strobe # 0
                   THEN /\ irq_line' = "ASSERT"
                        /\ irq_vector' = 239
                        /\ calls' = <<<<"irq", "ASSERT", 239>>>>
                   ELSE /\ UNCHANGED irq_vars
                        /\ calls' = <<>>
                /\ m_key_strobe' = IF st.strobe # 0 THEN st.strobe ELSE m_key_strobe
                /\ UNCHANGED <<m_mmr, io_vars, m_key_irq_enable, cfg_vars, mem_vars, map_vars>>

\* y: what m_io_y[row]->read() returns during this scan
scan_keyboard(y) ==
    /\ op' = "keyboard_tick"
    /\ IF ~m_key_irq_enable
       THEN /\ calls' = <<>>
            /\ UNCHANGED <<m_mmr, io_vars, kbd_vars, cfg_vars, mem_vars, map_vars, irq_vars>>
       ELSE LET st == scan_rows(y, 0, [strobe |-> 0, latch |-> m_key_latch])
            IN  /\ m_key_latch' = st.latch
                /\ IF m_key_strobe = 0 /\ st.strobe # 0
                   THEN /\ irq_line' = "ASSERT"
                        /\ irq_vector' = 239
                        /\ calls' = <<<<"irq", "ASSERT", 239>>>>
                   ELSE /\ UNCHANGED irq_vars
                        /\ calls' = <<>>
                /\ m_key_strobe' = IF st.strobe # 0 THEN st.strobe ELSE m_key_strobe
                /\ UNCHANGED <<m_mmr, io_vars, m_key_irq_enable, cfg_vars, mem_vars, map_vars>>

keyboard_tick(y) == scan_keyboard(y)

\* variant: the status byte without 0x10
port70_r_strobe_only == m_key_strobe % 2

port70_r == 16 + (m_key_strobe % 2)

\* variant: the latch is returned with the active-low row bits inverted
port71_r_inverted == 255 - m_key_latch

port71_r == m_key_latch

\* variant: the status write also clears the latch
port70_w_clears_latch(data) ==
    /\ op' = "port70_w"
    /\ m_key_strobe' = 0
    /\ m_key_latch' = 0
    /\ calls' = <<>>
    /\ UNCHANGED <<m_mmr, io_vars, m_key_irq_enable, cfg_vars, mem_vars, map_vars, irq_vars>>

\* variant: the status write also clears the IRQ0 line
port70_w_clears_irq(data) ==
    /\ op' = "port70_w"
    /\ m_key_strobe' = 0
    /\ irq_line' = "CLEAR"
    /\ calls' = <<<<"irq", "CLEAR">>>>
    /\ UNCHANGED <<m_mmr, io_vars, m_key_latch, m_key_irq_enable, cfg_vars, mem_vars,
                   map_vars, irq_vector>>

port70_w(data) ==
    /\ op' = "port70_w"
    /\ m_key_strobe' = 0
    /\ calls' = <<>>
    /\ UNCHANGED <<m_mmr, io_vars, m_key_latch, m_key_irq_enable, cfg_vars, mem_vars,
                   map_vars, irq_vars>>

\* variant: the latch takes the new byte before the comparison reads it
port71_w_latch_first(data) ==
    /\ op' = "port71_w"
    /\ m_key_latch' = data
    /\ irq_line' = "CLEAR"
    /\ calls' = <<<<"irq", "CLEAR">>>>
    /\ m_key_irq_enable' = IF data = 24 /\ data = 16 THEN TRUE ELSE m_key_irq_enable
    /\ UNCHANGED <<m_mmr, io_vars, m_key_strobe, cfg_vars, mem_vars, map_vars, irq_vector>>

port71_w(data) ==
    /\ op' = "port71_w"
    /\ m_key_latch' = data
    /\ irq_line' = "CLEAR"
    /\ calls' = <<<<"irq", "CLEAR">>>>
    /\ m_key_irq_enable' = IF data = 24 /\ m_key_latch = 16 THEN TRUE ELSE m_key_irq_enable
    /\ UNCHANGED <<m_mmr, io_vars, m_key_strobe, cfg_vars, mem_vars, map_vars, irq_vector>>

(***************************************************************************)
(* Inputs                                                                  *)
(***************************************************************************)
\* bytes written to port 30h: every low-window source with every ROM
\* section, every mid-window cell, the CRT bit and the unused bit 7
MmrInputs == {0, 1, 2, 3, 4, 8, 12, 16, 20, 32, 48, 64, 68, 128}

\* bytes the CPU writes to memory
WriteBytes == {170}

\* bytes written to ports 70h / 71h
PortBytes == {0, 16, 24}

IdleRows == [row \in Rows |-> 255]

\* keyboard matrix readings: idle, one row down, two rows down
KeyRows ==
    {IdleRows,
     [IdleRows EXCEPT ![0] = 254],
     [IdleRows EXCEPT ![9] = 16],
     [IdleRows EXCEPT ![2] = 127, ![7] = 253]}

(***************************************************************************)
(* I/O ROM cartridge: ports B0h-B3h                                        *)
(***************************************************************************)
\* the I/O ROM cartridge image (data)
io_cart_rom(off) == (off + off \div 256 + off \div 65536) % 251

\* generic_slot_device::read_rom: the image byte at the offset, the floating
\* bus with an empty slot
read_rom(off) == IF m_io_cart THEN io_cart_rom(off) ELSE UnmapValue

io_rom_data_r == read_rom(m_io_addr)

\* variant: the A15..A8 write masks the counter with 00ffh and loses A17..A16
io_rom_addr_w_high_lost(offset, data) ==
    /\ op' = "io_rom_addr_w"
    /\ m_io_addr' =
          CASE offset = 0 -> ((data % 4) * 65536) + (m_io_addr % 65536)
            [] offset = 1 -> (m_io_addr % 256) + (data * 256)
            [] offset = 2 -> (((m_io_addr \div 256) % 1024) * 256) + data
            [] offset = 3 -> m_io_addr
    /\ calls' = <<>>
    /\ UNCHANGED <<m_mmr, data_bus, saved, kbd_vars, cfg_vars, mem_vars, map_vars, irq_vars>>

\* the masks: 0xffff keeps A15..A0, 0x300ff keeps A17..A16 and A7..A0,
\* 0x3ff00 keeps A17..A8; the byte ored in fills bits that the mask cleared
io_rom_addr_w(offset, data) ==
    /\ op' = "io_rom_addr_w"
    /\ m_io_addr' =
          CASE offset = 0 -> ((data % 4) * 65536) + (m_io_addr % 65536)
            [] offset = 1 -> (((m_io_addr \div 65536) % 4) * 65536) + (m_io_addr % 256) + (data * 256)
            [] offset = 2 -> (((m_io_addr \div 256) % 1024) * 256) + data
            [] offset = 3 -> m_io_addr
    /\ calls' = <<>>
    /\ UNCHANGED <<m_mmr, data_bus, saved, kbd_vars, cfg_vars, mem_vars, map_vars, irq_vars>>

(***************************************************************************)
(* RTC: ports 10h and 40h                                                  *)
(***************************************************************************)
\* the levels read from the RTC's DATA OUT and TP lines are inputs
rtc_r(data_out, tp) == (data_out * 2) + (tp * 4)

\* variant: DATA IN is driven from bit 2
rtc_cmd_w_data_in_bit2(data) ==
    /\ op' = "rtc_cmd_w"
    /\ calls' = <<<<"c0_w", BIT(data, 0)>>, <<"c1_w", BIT(data, 1)>>,
                  <<"c2_w", BIT(data, 2)>>, <<"data_in_w", BIT(data, 2)>>>>
    /\ UNCHANGED <<m_mmr, io_vars, kbd_vars, cfg_vars, mem_vars, map_vars, irq_vars>>

rtc_cmd_w(data) ==
    /\ op' = "rtc_cmd_w"
    /\ calls' = <<<<"c0_w", BIT(data, 0)>>, <<"c1_w", BIT(data, 1)>>,
                  <<"c2_w", BIT(data, 2)>>, <<"data_in_w", BIT(data, 3)>>>>
    /\ UNCHANGED <<m_mmr, io_vars, kbd_vars, cfg_vars, mem_vars, map_vars, irq_vars>>

rtc_ctrl_w(data) ==
    /\ op' = "rtc_ctrl_w"
    /\ calls' = <<<<"oe_w", BIT(data, 0)>>, <<"stb_w", BIT(data, 1)>>, <<"clk_w", BIT(data, 2)>>>>
    /\ UNCHANGED <<m_mmr, io_vars, kbd_vars, cfg_vars, mem_vars, map_vars, irq_vars>>

(***************************************************************************)
(* Port reads: pc8500_io hands the CPU the byte the read handler returns;  *)
(* no read handler assigns a member.                                       *)
(***************************************************************************)
port_r(handler, value, cs) ==
    /\ op' = handler
    /\ data_bus' = value
    /\ calls' = cs
    /\ UNCHANGED <<m_mmr, m_io_addr, saved, kbd_vars, cfg_vars, mem_vars, map_vars, irq_vars>>

(***************************************************************************)
(* State saving: machine_start registers m_mmr and m_io_addr, and nothing  *)
(* else of the driver. A save writes the registered items, a load assigns  *)
(* them; the driver has no post-load hook, so a load runs no bankswitch.   *)
(***************************************************************************)
save_item ==
    /\ op' = "save"
    /\ saved' = [taken |-> TRUE, m_mmr |-> m_mmr, m_io_addr |-> m_io_addr]
    /\ calls' = <<>>
    /\ UNCHANGED <<m_mmr, m_io_addr, data_bus, kbd_vars, cfg_vars, mem_vars, map_vars, irq_vars>>

load_item ==
    /\ saved.taken
    /\ op' = "load"
    /\ m_mmr' = saved.m_mmr
    /\ m_io_addr' = saved.m_io_addr
    /\ calls' = <<>>
    /\ UNCHANGED <<data_bus, saved, kbd_vars, cfg_vars, mem_vars, map_vars, irq_vars>>

(***************************************************************************)
(* History variables: they record what happened and constrain nothing      *)
(* (asserts is capped at MaxAsserts).                                      *)
(***************************************************************************)
MaxAsserts == 2

ObsInit ==
    /\ phase = "reset"
    /\ asserts = 0
    /\ keyed = FALSE
    /\ e2e = [step |-> 0, a |-> 0, v |-> 0]
    /\ io_hist = [h |-> 0, m |-> 0, l |-> 0]
    /\ at_save = [m_key_strobe |-> 0, m_key_latch |-> 0, m_key_irq_enable |-> FALSE]
    /\ seq = [step |-> 0, keyed |-> FALSE, polled |-> FALSE]

ObsReset ==
    /\ phase' = "reset"
    /\ asserts' = 0
    /\ keyed' = FALSE

ObsPortWrite(port, data) ==
    /\ phase' = IF port = 113 /\ phase = "reset" /\ data = 16 THEN "w10"
                ELSE IF port = 113 /\ phase = "w10" /\ data = 24 THEN "en"
                ELSE "other"
    /\ asserts' = 0
    /\ keyed' = FALSE

ObsTick(y) ==
    /\ phase' = phase
    /\ asserts < MaxAsserts
    /\ asserts' = IF calls' # <<>> THEN asserts + 1 ELSE asserts
    /\ keyed' = (keyed \/ y # IdleRows)

\* the byte last written to each of ports B0h, B1h, B2h
ObsIoWrite(offset, data) ==
    /\ io_hist' = CASE offset = 0 -> [io_hist EXCEPT !.h = data]
                    [] offset = 1 -> [io_hist EXCEPT !.m = data]
                    [] offset = 2 -> [io_hist EXCEPT !.l = data]
                    [] offset = 3 -> io_hist
    /\ UNCHANGED <<obs_vars, e2e, at_save, seq>>

\* the enable sequence: step 0 from a reset to the write of 10h to port 71h,
\* step 1 from there to the write of 18h, step 2 after it; keyed and polled
\* tell whether a tick read a key down, and port 70h was written, before step 2
SeqStep(s) ==
    /\ seq' = s
    /\ UNCHANGED <<e2e, io_hist, at_save>>

\* the keyboard fields as they are when the state is saved
ObsSave ==
    /\ at_save' = [m_key_strobe |-> m_key_strobe, m_key_latch |-> m_key_latch,
                   m_key_irq_enable |-> m_key_irq_enable]
    /\ UNCHANGED <<obs_vars, e2e, io_hist, seq>>

(***************************************************************************)
(* Specifications                                                          *)
(***************************************************************************)
Init == machine_start /\ ObsInit

\* the memory side: port 30h, CPU writes, reset
NextMem ==
    \/ \E d \in MmrInputs : mmr_w(d) /\ UNCHANGED obs_vars /\ UNCHANGED scr_vars
    \/ \E a \in AddrProbe, d \in WriteBytes : mem_w(a, d) /\ UNCHANGED obs_vars /\ UNCHANGED scr_vars
    \/ machine_reset /\ ObsReset /\ UNCHANGED scr_vars

\* the keyboard side: the 44 Hz tick, ports 70h / 71h, reset
NextKbd ==
    \/ \E y \in KeyRows : keyboard_tick(y) /\ ObsTick(y) /\ UNCHANGED scr_vars
    \/ \E d \in PortBytes : port70_w(d) /\ ObsPortWrite(112, d) /\ UNCHANGED scr_vars
    \/ \E d \in PortBytes : port71_w(d) /\ ObsPortWrite(113, d) /\ UNCHANGED scr_vars
    \/ machine_reset /\ ObsReset /\ UNCHANGED scr_vars

\* the end-to-end sequence of the memory map: MMR=04h, a write to the low
\* window, MMR=00h, MMR=04h
E2EBytes == {170, 85, 0, 255}

NextE2E ==
    \/ e2e.step = 0 /\ mmr_w(4) /\ e2e' = [e2e EXCEPT !.step = 1] /\ UNCHANGED <<obs_vars, io_hist, at_save, seq>>
    \/ e2e.step = 1 /\ \E a \in LowProbe, v \in E2EBytes :
           mem_w(a, v) /\ e2e' = [step |-> 2, a |-> a, v |-> v]
                       /\ UNCHANGED <<obs_vars, io_hist, at_save, seq>>
    \/ e2e.step = 2 /\ mmr_w(0) /\ e2e' = [e2e EXCEPT !.step = 3] /\ UNCHANGED <<obs_vars, io_hist, at_save, seq>>
    \/ e2e.step = 3 /\ mmr_w(4) /\ e2e' = [e2e EXCEPT !.step = 4] /\ UNCHANGED <<obs_vars, io_hist, at_save, seq>>

\* both sides on one timeline, the memory side with few inputs
MmrFew == {0, 4}
AddrFew == {4096}

NextAll ==
    \/ NextKbd
    \/ \E d \in MmrFew : mmr_w(d) /\ UNCHANGED obs_vars /\ UNCHANGED scr_vars
    \/ \E a \in AddrFew, d \in WriteBytes : mem_w(a, d) /\ UNCHANGED obs_vars /\ UNCHANGED scr_vars

\* reads of ports 70h and 71h
NextKbdRead ==
    \/ port_r("port70_r", port70_r, <<>>) /\ UNCHANGED obs_vars /\ UNCHANGED scr_vars
    \/ port_r("port71_r", port71_r, <<>>) /\ UNCHANGED obs_vars /\ UNCHANGED scr_vars

\* the I/O ROM cartridge: writes to B0h-B3h, reads of B3h, reset
IoBytes == {0, 1, 35, 69, 255}

NextIo ==
    \/ \E offset \in 0 .. 3, d \in IoBytes : io_rom_addr_w(offset, d) /\ ObsIoWrite(offset, d)
    \/ port_r("io_rom_data_r", io_rom_data_r, <<>>) /\ UNCHANGED obs_vars /\ UNCHANGED scr_vars
    \/ machine_reset /\ ObsReset /\ UNCHANGED scr_vars

\* the RTC ports, with writes to ports 30h, 71h and B1h that move the
\* driver's own state
RtcBytes == {0, 2, 5, 9, 15}
IoFew == {35}

NextRtc ==
    \/ \E d \in RtcBytes : rtc_cmd_w(d) /\ UNCHANGED obs_vars /\ UNCHANGED scr_vars
    \/ \E d \in RtcBytes : rtc_ctrl_w(d) /\ UNCHANGED obs_vars /\ UNCHANGED scr_vars
    \/ \E data_out \in 0 .. 1, tp \in 0 .. 1 :
          /\ port_r("rtc_r", rtc_r(data_out, tp), <<<<"data_out_r", data_out>>, <<"tp_r", tp>>>>)
          /\ UNCHANGED obs_vars /\ UNCHANGED scr_vars
    \/ \E d \in MmrFew : mmr_w(d) /\ UNCHANGED obs_vars /\ UNCHANGED scr_vars
    \/ \E d \in PortBytes : port71_w(d) /\ ObsPortWrite(113, d) /\ UNCHANGED scr_vars
    \/ \E d \in IoFew : io_rom_addr_w(1, d) /\ ObsIoWrite(1, d)
    \/ machine_reset /\ ObsReset /\ UNCHANGED scr_vars

\* state saves and loads between writes to ports 30h, 70h, 71h, B1h and ticks
KeyFew == {y \in KeyRows : y[0] # 255}

NextSave ==
    \/ save_item /\ ObsSave
    \/ load_item /\ UNCHANGED obs_vars /\ UNCHANGED scr_vars
    \/ \E d \in MmrFew : mmr_w(d) /\ UNCHANGED obs_vars /\ UNCHANGED scr_vars
    \/ \E d \in IoFew : io_rom_addr_w(1, d) /\ ObsIoWrite(1, d)
    \/ \E y \in KeyFew : keyboard_tick(y) /\ ObsTick(y) /\ UNCHANGED scr_vars
    \/ \E d \in PortBytes : port70_w(d) /\ ObsPortWrite(112, d) /\ UNCHANGED scr_vars
    \/ \E d \in PortBytes : port71_w(d) /\ ObsPortWrite(113, d) /\ UNCHANGED scr_vars
    \/ machine_reset /\ ObsReset /\ UNCHANGED scr_vars

\* the enable sequence under every interleaving: until the write of 18h the
\* only writes to port 71h are 10h and then 18h, while ticks, reads of both
\* ports and writes to port 70h run at any point; after it, and up to the
\* next reset, every keyboard operation runs
NextSeq ==
    \/ \E y \in KeyRows :
          /\ keyboard_tick(y) /\ ObsTick(y)
          /\ SeqStep(IF seq.step < 2 /\ y # IdleRows THEN [seq EXCEPT !.keyed = TRUE] ELSE seq)
    \/ \E d \in PortBytes :
          /\ port70_w(d) /\ ObsPortWrite(112, d)
          /\ SeqStep(IF seq.step < 2 THEN [seq EXCEPT !.polled = TRUE] ELSE seq)
    \/ port_r("port70_r", port70_r, <<>>) /\ UNCHANGED obs_vars /\ UNCHANGED scr_vars
    \/ port_r("port71_r", port71_r, <<>>) /\ UNCHANGED obs_vars /\ UNCHANGED scr_vars
    \/ \E d \in PortBytes :
          /\ seq.step = 0 => d = 16
          /\ seq.step = 1 => d = 24
          /\ port71_w(d) /\ ObsPortWrite(113, d)
          /\ SeqStep(IF seq.step < 2 THEN [seq EXCEPT !.step = seq.step + 1] ELSE seq)
    \/ machine_reset /\ ObsReset /\ SeqStep([step |-> 0, keyed |-> FALSE, polled |-> FALSE])

Next == NextMem \/ NextKbd \/ NextKbdRead \/ NextIo \/ NextRtc \/ NextSave \/ NextSeq

Spec == Init /\ [][Next]_vars
SpecMem == Init /\ [][NextMem]_vars
SpecKbd == Init /\ [][NextKbd \/ NextKbdRead]_vars
SpecAll == Init /\ [][NextAll]_vars
SpecE2E == Init /\ [][NextE2E]_vars
SpecIo == Init /\ [][NextIo]_vars
SpecRtc == Init /\ [][NextRtc]_vars
SpecSave == Init /\ [][NextSave]_vars
SpecSeq == Init /\ [][NextSeq]_vars

(***************************************************************************)
(* Properties of the memory map                                            *)
(***************************************************************************)
\* the fields of the memory mapping register
RomBank(v) == v % 4
LowSource(v) == (v \div 4) % 4
MidSource(v) == (v \div 16) % 4

\* C1: a write to port 30h of the value the MMR already holds calls
\* bankswitch not at all and leaves every window's handlers, bank entries and
\* read values as they were; a write of another value calls bankswitch once,
\* with the written value; either way the MMR then holds the written value.
C1_MmrWrite ==
    [][\A d \in MmrInputs : mmr_w(d) =>
          /\ m_mmr' = d
          /\ mmr_r' = d
          /\ IF d = m_mmr
             THEN /\ calls' = <<>>
                  /\ program' = program
                  /\ bank_entry' = bank_entry
                  /\ \A a \in AddrProbe : mem_r(a)' = mem_r(a)
             ELSE calls' = <<<<"bankswitch", d>>>>]_vars

\* a write of 44h while the MMR holds 44h has just run
C1_Witness == op = "mmr_w" /\ m_mmr = 68 /\ calls = <<>>

\* the low window shows internal ROM section RomBank(m_mmr)
LowIsRom ==
    (LowSource(m_mmr) = 0 /\ RomBank(m_mmr) < 3) =>
        \A a \in LowProbe : mem_r(a) = ROM_START(RomBank(m_mmr) * 32768 + a)

\* C2: with low source 0 and ROM section 0, 1 or 2 in the MMR, each low-window
\* read returns the byte of that section of the internal ROM at the same
\* offset, and a write to a low-window address changes nothing: the read of
\* that address, the ROM, main RAM and the CRT RAM are as before.
C2_LowRom ==
    [][/\ LowIsRom
       /\ LowIsRom'
       /\ \A a \in LowProbe, d \in WriteBytes :
             (LowSource(m_mmr) = 0 /\ RomBank(m_mmr) < 3 /\ mem_w(a, d)) =>
                 /\ mem_r(a)' = mem_r(a)
                 /\ mem_r(a)' = ROM_START(RomBank(m_mmr) * 32768 + a)
                 /\ m_rom' = m_rom
                 /\ ram' = ram
                 /\ crt_ram' = crt_ram]_vars

\* ROM section 1 is selected and a write has run that stored nothing: no
\* store differs from its content at machine start
C2_Witness ==
    /\ op = "mem_w"
    /\ m_mmr = 1
    /\ mem_r(4096) = ROM_START(32768 + 4096)
    /\ \E f \in RamFill : ram = [o \in RamProbe |-> f]

\* the low window shows main RAM 0000h-7FFFh
LowIsRam ==
    LowSource(m_mmr) = 1 =>
        /\ \A a \in LowProbe : mem_r(a) = ram[a]
        /\ \A a \in LowProbe :
              (MidSource(m_mmr) = a \div 16384 /\ 32768 + (a % 16384) \in AddrProbe) =>
                  mem_r(32768 + (a % 16384)) = mem_r(a)

\* C3: with low source 1 in the MMR the low window reads main RAM at the same
\* offset, a byte written to a low-window address is stored in main RAM at
\* that offset and read back there, and the mid window shows the same byte
\* when its cell holds that offset.
C3_LowRam ==
    [][/\ LowIsRam
       /\ LowIsRam'
       /\ \A a \in LowProbe, d \in WriteBytes :
             (LowSource(m_mmr) = 1 /\ mem_w(a, d)) =>
                 /\ mem_r(a)' = d
                 /\ ram' = [ram EXCEPT ![a] = d]
                 /\ m_rom' = m_rom]_vars

\* low source 1 with mid cell 1: a write has stored AAh at RAM 5000h, seen at
\* 5000h and at 9000h, and not at 1000h
C3_Witness ==
    /\ op = "mem_w"
    /\ m_mmr = 20
    /\ mem_r(20480) = 170
    /\ mem_r(36864) = 170
    /\ mem_r(4096) # 170

\* C4: from machine start, after MMR=04h and a write of v to low-window
\* address a, a reads v; after MMR=00h, a reads the byte of ROM section 0 at
\* a; after MMR=04h again, a reads v.
C4_EndToEnd ==
    /\ e2e.step = 0 => \A a \in LowProbe : mem_r(a) = ROM_START(a)
    /\ e2e.step = 2 => mem_r(e2e.a) = e2e.v
    /\ e2e.step = 3 => mem_r(e2e.a) = ROM_START(e2e.a) /\ mem_r(e2e.a) # e2e.v
    /\ e2e.step = 4 => mem_r(e2e.a) = e2e.v

\* the sequence has run to its end
C4_Witness == e2e.step = 4 /\ m_mmr = 4 /\ e2e.a = 4096 /\ e2e.v = 85 /\ mem_r(4096) = 85

(***************************************************************************)
(* Properties of the keyboard                                              *)
(***************************************************************************)
\* C5: while m_key_irq_enable is false a tick, whatever the rows read, leaves
\* the strobe flag, the latch and the CPU's IRQ0 line as they were and makes
\* no call on the line.
C5_DisabledTick ==
    [][(op' = "keyboard_tick" /\ ~m_key_irq_enable) =>
          /\ m_key_strobe' = m_key_strobe
          /\ m_key_latch' = m_key_latch
          /\ irq_line' = irq_line
          /\ calls' = <<>>
          /\ ~m_key_irq_enable']_vars

\* a tick has read a pressed key with the interrupt disabled, and nothing shows
C5_Witness ==
    /\ op = "keyboard_tick"
    /\ keyed
    /\ ~m_key_irq_enable
    /\ m_key_strobe = 0
    /\ irq_line = "CLEAR"

\* C6 as stated: once port 71h has been written 10h and then 18h after a
\* reset, and a tick since then has read a non-idle row, IRQ0 is asserted,
\* status bit 0 is 1 and the line was asserted exactly once.
C6_Original ==
    (phase = "en" /\ keyed) =>
        /\ irq_line = "ASSERT"
        /\ port70_r % 2 = 1
        /\ asserts = 1

\* C7: a tick asserts IRQ0 only when the strobe flag was clear before it and
\* the scan read a non-idle row; a set strobe flag stays set through every
\* step other than a write to port 70h, and while it is set no tick calls or
\* changes the IRQ0 line.
C7_EdgeTriggered ==
    [][/\ (op' = "keyboard_tick" /\ calls' # <<>>) =>
             /\ m_key_strobe = 0
             /\ m_key_strobe' = 1
             /\ calls' = <<<<"irq", "ASSERT", 239>>>>
             /\ irq_line' = "ASSERT"
       /\ \A y \in KeyRows : (keyboard_tick(y) /\ calls' # <<>>) => y # IdleRows
       /\ (m_key_strobe = 1 /\ op' # "port70_w") => m_key_strobe' = 1
       /\ (m_key_strobe = 1 /\ op' = "keyboard_tick") =>
             (calls' = <<>> /\ irq_line' = irq_line)]_vars

\* the strobe is set, a write to port 71h has cleared the line and a later
\* tick with a key down has left it clear
C7_Witness ==
    /\ op = "keyboard_tick"
    /\ keyed
    /\ m_key_irq_enable
    /\ m_key_strobe = 1
    /\ irq_line = "CLEAR"

\* C8: a write of d to port 71h clears IRQ0 and leaves m_key_irq_enable true
\* exactly when it was true already or d = 18h with 10h in the latch; no
\* other step sets it, and only machine_reset clears it.
C8_EnableLatch ==
    [][/\ \A d \in PortBytes : port71_w(d) =>
             /\ irq_line' = "CLEAR"
             /\ m_key_irq_enable' = (m_key_irq_enable \/ (d = 24 /\ m_key_latch = 16))
       /\ (op' # "port71_w" /\ m_key_irq_enable') => m_key_irq_enable
       /\ (op' # "machine_reset" /\ m_key_irq_enable) => m_key_irq_enable']_vars

\* the write of 18h after 10h has just enabled the interrupt
C8_Witness ==
    /\ op = "port71_w"
    /\ phase = "en"
    /\ m_key_irq_enable
    /\ m_key_latch = 24
    /\ irq_line = "CLEAR"

\* C9 as stated: after machine_reset the interrupt is disabled and the strobe
\* flag is clear, so port 70h reads bit 0 = 0.
C9_Original ==
    op = "machine_reset" =>
        /\ ~m_key_irq_enable
        /\ m_key_strobe = 0
        /\ port70_r % 2 = 0

\* the mapping bankswitch(0) installs: ROM section 0 in the low window, RAM
\* cell 0 in the mid window, main RAM in the high window
MappedAsMmr0 ==
    /\ \A a \in LowProbe : mem_r(a) = ROM_START(a)
    /\ program.r["w8000"] = "bank3" /\ program.w["w8000"] = "bank3"
    /\ bank_entry["bank3"] = 0
    /\ mem_r(36864) = ram[4096]
    /\ program.r["wc000"] = "bank4" /\ program.r["we000"] = "bank4"
    /\ bank_entry["bank4"] = 0
    /\ mem_r(53248) = ram[53248]

\* C10 as stated: machine_reset leaves the MMR as it was and the windows
\* mapped as bankswitch(0) maps them.
C10_Original ==
    [][op' = "machine_reset" => (m_mmr' = m_mmr /\ mmr_r' = mmr_r /\ MappedAsMmr0')]_vars


(***************************************************************************)
(* Properties of the windows, one by one                                   *)
(***************************************************************************)
\* the CPU cannot reach a store through window w: reads float high, writes
\* have no handler
Unmapped(w) == program.r[w] = "unmap" /\ program.w[w] = "unmap"

\* C11 as stated: a write to the MMR of a value with low source 3 takes the
\* value, leaves the low window unmapped whatever was mapped there before
\* (reads return FFh, writes have no handler) and resolves the mid and the
\* high window as for any other value.
C11_Original ==
    [][\A d \in MmrInputs : (mmr_w(d) /\ LowSource(d) = 3) =>
          /\ m_mmr' = d
          /\ Unmapped("w0000")'
          /\ \A a \in LowProbe : mem_r(a)' = UnmapValue
          /\ program'.r["w8000"] = "bank3" /\ bank_entry'["bank3"] = MidSource(d)
          /\ program'.r["wc000"] = "bank4" /\ bank_entry'["bank4"] = BIT(d, 6)]_vars

\* C12 as stated: with mid source s = 0, 1 or 2 the mid window is read-write
\* on main RAM at s * 4000h; with s = 3 it is read-write on expansion RAM
\* (beyond the base 64 KB) when more than 64 KB of RAM is installed, and
\* unmapped with the base 64 KB.
C12_Original ==
    /\ MidSource(m_mmr) < 3 =>
          /\ program.r["w8000"] = "bank3" /\ program.w["w8000"] = "bank3"
          /\ mem_r(36864) = ram[MidSource(m_mmr) * 16384 + 4096]
    /\ (MidSource(m_mmr) = 3 /\ ram_size <= 64 * 1024) =>
          /\ Unmapped("w8000")
          /\ mem_r(36864) = UnmapValue
    /\ (MidSource(m_mmr) = 3 /\ ram_size > 64 * 1024) =>
          /\ program.r["w8000"] = "bank3" /\ program.w["w8000"] = "bank3"
          /\ Target("bank3", 36864, bank_entry).store = "ram"
          /\ Target("bank3", 36864, bank_entry).off >= 64 * 1024


\* what the high window shows for the MMR value: with bit 6 set the CRT RAM
\* at C000h-DFFFh and nothing at E000h-E7FFh, with bit 6 clear main RAM
\* C000h-E7FFh
HighIsSelected ==
    IF BIT(m_mmr, 6) = 1
    THEN /\ program.r["wc000"] = "bank4" /\ program.w["wc000"] = "bank4"
         /\ mem_r(53248) = crt_ram[4096]
         /\ Unmapped("we000")
         /\ mem_r(58368) = UnmapValue
    ELSE /\ \A w \in {"wc000", "we000"} : program.r[w] = "bank4" /\ program.w[w] = "bank4"
         /\ \A a \in {53248, 58368} : mem_r(a) = ram[a]

\* C13: with bit 6 of the MMR set, C000h-DFFFh reads and writes the CRT RAM
\* (a write there leaves main RAM as it was) and E000h-E7FFh is unmapped;
\* with bit 6 clear, C000h-E7FFh reads and writes main RAM at the same
\* offset. No MMR write changes main RAM or the CRT RAM, so the main RAM
\* bytes hidden behind the CRT RAM are read again once bit 6 is cleared.
C13_HighWindow ==
    [][/\ HighIsSelected
       /\ HighIsSelected'
       /\ \A d \in WriteBytes : (BIT(m_mmr, 6) = 1 /\ mem_w(53248, d)) =>
             /\ crt_ram' = [crt_ram EXCEPT ![4096] = d]
             /\ mem_r(53248)' = d
             /\ ram' = ram
       /\ \A d \in WriteBytes : (BIT(m_mmr, 6) = 1 /\ mem_w(58368, d)) =>
             /\ ram' = ram
             /\ crt_ram' = crt_ram
       /\ \A a \in {53248, 58368}, d \in WriteBytes : (BIT(m_mmr, 6) = 0 /\ mem_w(a, d)) =>
             /\ ram' = [ram EXCEPT ![a] = d]
             /\ mem_r(a)' = d
             /\ crt_ram' = crt_ram
       /\ op' = "mmr_w" => (ram' = ram /\ crt_ram' = crt_ram)]_vars

\* AAh was written to RAM D000h, then to the CRT RAM at the same address, and
\* bit 6 is clear again: D000h reads the RAM byte, E400h its untouched one
C13_Witness ==
    /\ op = "mmr_w"
    /\ m_mmr = 0
    /\ crt_ram[4096] = 170
    /\ mem_r(53248) = 170
    /\ mem_r(58368) = 205

\* the top window is on bank5, read and write, and reads main RAM
TopIsRam ==
    /\ program.r["we800"] = "bank5" /\ program.w["we800"] = "bank5"
    /\ bank_entry["bank5"] = 0
    /\ mem_r(61440) = ram[61440]

\* C14: in every state E800h-FFFFh reads main RAM at the same offset, a
\* write there is stored in main RAM at that offset, and no MMR write and no
\* reset changes the byte read there.
C14_TopWindow ==
    [][/\ TopIsRam
       /\ TopIsRam'
       /\ \A d \in WriteBytes : mem_w(61440, d) =>
             /\ ram' = [ram EXCEPT ![61440] = d]
             /\ mem_r(61440)' = d
       /\ op' \in {"mmr_w", "machine_reset"} => mem_r(61440)' = mem_r(61440)]_vars

\* AAh was written to F000h and is read there under the CRT RAM mapping
C14_Witness ==
    /\ op = "mmr_w"
    /\ m_mmr = 64
    /\ mem_r(61440) = 170


(***************************************************************************)
(* Properties of the I/O ROM cartridge ports                               *)
(***************************************************************************)
\* the 18-bit address that the bytes last written to B0h, B1h, B2h spell
IoAddressOf(hist) == ((hist.h % 4) * 65536) + (hist.m * 256) + hist.l

\* C15: the I/O ROM address is ((h & 3) << 16) | (m << 8) | l for the bytes
\* last written to offsets 0, 1 and 2 (0 where none was written), whatever
\* the order of the writes, and stays below 40000h; a write to offset 3 and a
\* data read leave it as it is; the data read returns the cartridge byte at
\* that address (FFh with no cartridge).
C15_IoAddress ==
    [][/\ m_io_addr = IoAddressOf(io_hist)
       /\ m_io_addr' = IoAddressOf(io_hist')
       /\ m_io_addr' < 262144
       /\ \A d \in IoBytes : io_rom_addr_w(3, d) => m_io_addr' = m_io_addr
       /\ op' = "io_rom_data_r" =>
             /\ m_io_addr' = m_io_addr
             /\ data_bus' = IF m_io_cart THEN io_cart_rom(IoAddressOf(io_hist)) ELSE UnmapValue]_vars

\* 01h, 23h, 45h were written to offsets 0, 1, 2 and the data read has
\* returned the cartridge byte at 12345h
C15_Witness ==
    /\ op = "io_rom_data_r"
    /\ m_io_cart
    /\ io_hist = [h |-> 1, m |-> 35, l |-> 69]
    /\ m_io_addr = 74565
    /\ data_bus = io_cart_rom(74565)


(***************************************************************************)
(* Properties of the keyboard ports                                        *)
(***************************************************************************)
\* the driver's state apart from the data bus
core_vars == <<m_mmr, m_io_addr, kbd_vars, cfg_vars, mem_vars, map_vars, irq_vars, saved>>

\* the byte a read of port 70h returns: bit 0 is the strobe flag, bit 4 is 1,
\* the other bits are 0
StatusByte ==
    /\ port70_r \in {16, 17}
    /\ BIT(port70_r, 0) = m_key_strobe
    /\ BIT(port70_r, 4) = 1
    /\ \A n \in {1, 2, 3, 5, 6, 7} : BIT(port70_r, n) = 0

\* C16: in every state a read of port 70h returns 10h or 11h, bit 0 being
\* the strobe flag, and the read changes nothing of the driver's state.
C16_StatusRead ==
    [][/\ StatusByte
       /\ StatusByte'
       /\ op' = "port70_r" =>
             /\ data_bus' = 16 + m_key_strobe
             /\ UNCHANGED core_vars]_vars

\* the status was read as 11h with a key latched and the line asserted
C16_Witness ==
    /\ op = "port70_r"
    /\ data_bus = 17
    /\ m_key_strobe = 1
    /\ irq_line = "ASSERT"


\* C17 as stated: a write to port 71h clears the latch, so the read of port
\* 71h that follows does not return the byte the CPU wrote.
C17_Original ==
    [][\A d \in PortBytes : (port71_w(d) /\ d \notin {0, 255}) => port71_r' # d]_vars

\* C17, amended: a read of port 71h returns the latch verbatim and changes
\* nothing; the latch holds the byte stored last by either an enabled tick
\* that read a non-idle row (that row's raw byte) or a write to port 71h (the
\* byte written), so a read after such a write returns the byte the CPU
\* wrote; no other step changes the latch.
C17_DataRead ==
    [][/\ port71_r = m_key_latch
       /\ op' = "port71_r" => (data_bus' = m_key_latch /\ UNCHANGED core_vars)
       /\ \A d \in PortBytes : port71_w(d) => port71_r' = d
       /\ \A y \in KeyRows : keyboard_tick(y) =>
             IF m_key_irq_enable /\ y # IdleRows
             THEN \E row \in Rows : y[row] # 255 /\ port71_r' = y[row]
             ELSE port71_r' = port71_r
       /\ op' \notin {"keyboard_tick", "port71_w"} => port71_r' = port71_r]_vars

\* the CPU has read back the 18h it wrote to enable the interrupt
C17_Witness ==
    /\ op = "port71_r"
    /\ phase = "en"
    /\ m_key_irq_enable
    /\ data_bus = 24


(***************************************************************************)
(* Properties of the RTC ports                                             *)
(***************************************************************************)
\* the driver's own state: the MMR, the keyboard fields, the I/O ROM address
OwnState == <<m_mmr, m_key_strobe, m_key_latch, m_key_irq_enable, m_io_addr>>

C19_Original ==
    op = "load" =>
        /\ m_mmr = saved.m_mmr
        /\ m_io_addr = saved.m_io_addr
        /\ m_key_strobe = at_save.m_key_strobe
        /\ m_key_latch = at_save.m_key_latch
        /\ m_key_irq_enable = at_save.m_key_irq_enable


(***************************************************************************)
(* Properties of the port writes of the keyboard                           *)
(***************************************************************************)
\* C20: a write to port 70h clears the strobe flag and leaves the IRQ0 line,
\* the latch and m_key_irq_enable as they were; a write to port 71h leaves
\* the strobe flag as it was; the IRQ0 line goes to asserted only in a tick
\* and to clear only in a write to port 71h, and no other step calls it.
C20_PortWrites ==
    [][/\ op' = "port70_w" =>
             /\ m_key_strobe' = 0
             /\ irq_line' = irq_line
             /\ m_key_latch' = m_key_latch
             /\ m_key_irq_enable' = m_key_irq_enable
       /\ op' = "port71_w" => m_key_strobe' = m_key_strobe
       /\ (irq_line # "ASSERT" /\ irq_line' = "ASSERT") => op' = "keyboard_tick"
       /\ (irq_line # "CLEAR" /\ irq_line' = "CLEAR") => op' = "port71_w"
       /\ op' \notin {"keyboard_tick", "port71_w"} =>
             \A n \in 1 .. Len(calls') : calls'[n][1] # "irq"]_vars

\* a write to port 70h has cleared the strobe flag of a latched key while the
\* line stays asserted
C20_Witness ==
    /\ op = "port70_w"
    /\ m_key_strobe = 0
    /\ m_key_irq_enable
    /\ m_key_latch = 254
    /\ irq_line = "ASSERT"


(***************************************************************************)
(* The mapping as a function of the MMR                                    *)
(***************************************************************************)
\* the bank each switched window is installed on
BankOf(w) ==
    CASE w = "w0000" -> "bank1"
      [] w = "w8000" -> "bank3"
      [] w \in {"wc000", "we000"} -> "bank4"

\* what the CPU meets in window w under mapping m: the read handler, the
\* write handler, and the entry of the window's bank unless both are unmapped
WindowView(m, w) ==
    [r |-> m.program.r[w],
     w |-> m.program.w[w],
     entry |-> IF m.program.r[w] = "unmap" /\ m.program.w[w] = "unmap"
               THEN -1 ELSE m.bank_entry[BankOf(w)]]

\* two mappings bankswitch may start from: the address map of machine
\* configuration, and nothing mapped with every bank on another entry
AnyMapping ==
    {[program |-> pc8401a_mem,
      bank_entry |-> [t \in {"bank1", "bank3", "bank4", "bank5"} |-> 0]],
     [program |-> [r |-> [w \in Window |-> "unmap"], w |-> [w \in Window |-> "unmap"]],
      bank_entry |-> [bank1 |-> 5, bank3 |-> 4, bank4 |-> 1, bank5 |-> 0]]}

\* the windows bankswitch(v) installs
ResolvedWindows(v) ==
    {"w8000", "wc000", "we000"} \cup (IF LowSource(v) = 3 THEN {} ELSE {"w0000"})

\* C21: in every state reached by MMR writes, CPU writes and resets, the
\* mid and high windows, and the low window unless the MMR's low source is
\* 3, are mapped as bankswitch maps them for the current MMR value from any
\* mapping whatever, and as it maps them for that value with bit 7 flipped;
\* the bytes read there are the bytes read under that mapping.
C21_MappingOfMmr ==
    \A base \in AnyMapping, v \in {m_mmr % 128, (m_mmr % 128) + 128} :
        LET m == bankswitch(v, m_cart_rom, ram_size, base)
            now == [program |-> program, bank_entry |-> bank_entry]
        IN  /\ \A w \in ResolvedWindows(m_mmr) : WindowView(now, w) = WindowView(m, w)
            /\ \A a \in AddrProbe : WindowOf(a) \in ResolvedWindows(m_mmr) =>
                  mem_r(a) = mem_r_in(a, m.program, m.bank_entry,
                                      [ram |-> ram, crt |-> crt_ram, rom |-> m_rom])

\* the MMR holds 80h after it held 04h (RAM in the low window, where AAh was
\* written) and 40h (the CRT RAM, written too): the windows are those of 00h
C21_Witness ==
    /\ op = "mmr_w"
    /\ m_mmr = 128
    /\ ram[4096] = 170
    /\ crt_ram[4096] = 170
    /\ mem_r(4096) = ROM_START(4096)
    /\ mem_r(58368) = ram[58368]


(***************************************************************************)
(* Properties of the scan                                                  *)
(***************************************************************************)
\* the highest-numbered row of y that reads other than FFh
TopRow(y) == CHOOSE row \in Rows :
                 /\ y[row] # 255
                 /\ \A other \in Rows : y[other] # 255 => other <= row

\* C22: with m_key_irq_enable true, a tick that reads a row other than FFh
\* puts the raw byte of the highest-numbered such row in the latch, whether
\* or not the strobe flag was set before it; a tick that reads FFh in all ten
\* rows changes neither the latch nor the strobe flag.
C22_ScanLatch ==
    [][\A y \in KeyRows : (m_key_irq_enable /\ keyboard_tick(y)) =>
          IF y # IdleRows
          THEN m_key_latch' = y[TopRow(y)]
          ELSE m_key_latch' = m_key_latch /\ m_key_strobe' = m_key_strobe]_vars

\* rows 2 and 7 were read down by a tick that found the strobe flag set: the
\* latch holds the byte of row 7 and the line, cleared by the CPU's write to
\* port 71h, was not asserted again
C22_Witness ==
    /\ op = "keyboard_tick"
    /\ m_key_irq_enable
    /\ m_key_strobe = 1
    /\ m_key_latch = 253
    /\ irq_line = "CLEAR"
    /\ asserts = 0


(***************************************************************************)
(* The enable sequence against the timer                                   *)
(***************************************************************************)
\* C23: from a reset, however ticks with any rows, reads of ports 70h and
\* 71h and writes to port 70h fall between and around the writes of 10h and
\* 18h to port 71h, the keyboard interrupt is disabled until the write of 18h
\* and enabled by it, and until then no tick sets the strobe flag, changes
\* the latch or calls the IRQ0 line.
C23_EnableSequence ==
    [][/\ seq.step < 2 => ~m_key_irq_enable
       /\ seq.step = 1 => m_key_latch = 16
       /\ (seq.step = 1 /\ op' = "port71_w") => (seq'.step = 2 /\ m_key_irq_enable')
       /\ seq'.step = 2 => m_key_irq_enable'
       /\ (seq.step < 2 /\ op' = "keyboard_tick") =>
             /\ m_key_strobe' = m_key_strobe
             /\ m_key_latch' = m_key_latch
             /\ irq_line' = irq_line
             /\ calls' = <<>>]_vars

\* the write of 18h has enabled the interrupt, with a key-down tick and a
\* write to port 70h since the reset
C23_Witness ==
    /\ op = "port71_w"
    /\ seq = [step |-> 2, keyed |-> TRUE, polled |-> TRUE]
    /\ phase = "other"
    /\ m_key_irq_enable
    /\ m_key_latch = 24


====
